---- MODULE Spec2Model ----
(***************************************************************************)
(* The structured-output pipeline of the Explainify backend (server.py):   *)
(* api_generate -> call_deepseek (fence removal, JSON extraction, parse,   *)
(* required-field check, answer validation) -> generate_study_suggestions. *)
(*                                                                         *)
(* Text is a sequence of lexemes.  A lexeme is one character ("a", " ",    *)
(* "{", the double quote, ...), the code-fence marker of three backticks    *)
(* (written "FENCE": a TLA+ string cannot hold a backtick), the word       *)
(* "json", or a key lexeme (the name k standing for the JSON text "k":).   *)
(* Python strings are such sequences; indices are 0-based as in Python.    *)
(***************************************************************************)
EXTENDS Integers, Sequences, FiniteSets, TLC

\* ------------------------------------------------------------------
\* Python str operations
\* ------------------------------------------------------------------

SetMin(S) == CHOOSE x \in S : \A y \in S : x <= y

SetMax(S) == CHOOSE x \in S : \A y \in S : x >= y

\* str.lower() on one character
LowerChar(c) ==
    CASE c = "A" -> "a"
      [] c = "B" -> "b"
      [] c = "C" -> "c"
      [] c = "D" -> "d"
      [] OTHER -> c

\* str.lower()
Lower(s) == [k \in 1..Len(s) |-> LowerChar(s[k])]

\* str.strip()
Strip(s) ==
    LET idx == {k \in 1..Len(s) : s[k] # " "}
    IN  IF idx = {} THEN <<>> ELSE SubSeq(s, SetMin(idx), SetMax(idx))

\* the 0-based offsets at which p occurs in s
Occurrences(s, p) ==
    {k \in 0..(Len(s) - Len(p)) : SubSeq(s, k + 1, k + Len(p)) = p}

\* str.find(p): lowest offset, or -1
Find(s, p) == IF Occurrences(s, p) = {} THEN -1 ELSE SetMin(Occurrences(s, p))

\* str.rfind(p): highest offset, or -1
RFind(s, p) == IF Occurrences(s, p) = {} THEN -1 ELSE SetMax(Occurrences(s, p))

\* Python "p in s" on strings
Contains(s, p) == Find(s, p) # -1

\* s[a:b] for a, b >= 0 (a slice never fails: it is clamped to the string)
Slice(s, a, b) ==
    IF a >= Len(s) \/ b <= a THEN <<>>
    ELSE SubSeq(s, a + 1, IF b < Len(s) THEN b ELSE Len(s))

\* str.replace(p, ""): non-overlapping occurrences, left to right
RECURSIVE Remove(_, _)
Remove(s, p) ==
    IF Len(p) = 0 \/ Find(s, p) = -1 THEN s
    ELSE SubSeq(s, 1, Find(s, p))
         \o Remove(SubSeq(s, Find(s, p) + Len(p) + 1, Len(s)), p)

\* ------------------------------------------------------------------
\* JSON values (what json.loads returns), tagged by Python type
\* ------------------------------------------------------------------

Str(s) == [t |-> "str", v |-> s]

Arr(xs) == [t |-> "arr", v |-> xs]

Obj(f) == [t |-> "obj", v |-> f]

None == [t |-> "none", v |-> <<>>]

\* Python "k in d" for a dict
HasKey(d, k) == d.t = "obj" /\ k \in DOMAIN d.v

\* the key lexemes: k stands for the text "k":
Keys ==
    {"teaching_content", "flashcards", "quiz", "test", "mcq_questions",
     "qa_questions", "title", "question", "options", "answer", "topic",
     "description"}

\* json.loads: a recursive-descent parser.  Whitespace between tokens is
\* skipped; a string runs from a quote to the next quote; a later duplicate
\* key overrides an earlier one.  The result is [ok, val, pos], pos the
\* 1-based index after the value.
ParseFail == [ok |-> FALSE, val |-> None, pos |-> 0]

RECURSIVE SkipWs(_, _)
SkipWs(s, i) == IF i <= Len(s) /\ s[i] = " " THEN SkipWs(s, i + 1) ELSE i

RECURSIVE ParseValue(_, _)
RECURSIVE ParseMembers(_, _, _)
RECURSIVE ParseElems(_, _, _)

ParseString(s, i) ==
    LET close == {k \in (i + 1)..Len(s) : s[k] = "\""}
    IN  IF close = {} THEN ParseFail
        ELSE [ok |-> TRUE, val |-> Str(SubSeq(s, i + 1, SetMin(close) - 1)),
              pos |-> SetMin(close) + 1]

ParseValue(s, i0) ==
    LET i == SkipWs(s, i0)
    IN  IF i > Len(s) THEN ParseFail
        ELSE IF s[i] = "\"" THEN ParseString(s, i)
        ELSE IF s[i] = "{" THEN ParseMembers(s, i + 1, <<>>)
        ELSE IF s[i] = "[" THEN ParseElems(s, i + 1, <<>>)
        ELSE ParseFail

ParseMembers(s, i0, acc) ==
    LET i == SkipWs(s, i0)
    IN  IF i > Len(s) THEN ParseFail
        ELSE IF s[i] = "}" THEN [ok |-> TRUE, val |-> Obj(acc), pos |-> i + 1]
        ELSE IF s[i] \in Keys
        THEN LET r == ParseValue(s, i + 1)
             IN  IF r.ok
                 THEN ParseMembers(s, r.pos,
                        [k \in (DOMAIN acc) \cup {s[i]} |->
                            IF k = s[i] THEN r.val ELSE acc[k]])
                 ELSE ParseFail
        ELSE ParseFail

ParseElems(s, i0, acc) ==
    LET i == SkipWs(s, i0)
    IN  IF i > Len(s) THEN ParseFail
        ELSE IF s[i] = "]" THEN [ok |-> TRUE, val |-> Arr(acc), pos |-> i + 1]
        ELSE LET r == ParseValue(s, i)
             IN  IF r.ok THEN ParseElems(s, r.pos, Append(acc, r.val))
                 ELSE ParseFail

\* json.loads(s): the whole of s must be one value
JsonLoads(s) ==
    LET r == ParseValue(s, 1)
    IN  IF r.ok /\ SkipWs(s, r.pos) = Len(s) + 1 THEN r ELSE ParseFail

\* ------------------------------------------------------------------
\* Exceptions: the message of each raise, with its interpolated values
\* ------------------------------------------------------------------

MsgTopicRequired == "Topic required"

MsgApiError == "DeepSeek API Error: "

MsgNoJson == "DeepSeek did not return JSON"

MsgInvalidJson == "Invalid JSON from DeepSeek: "

MsgMissingField == "DeepSeek JSON missing required field: "

MsgNoAnswer == "Quiz question i has no answer"

MsgOptionCount == "Quiz question i must have exactly 4 options"

MsgNoMatch == "Quiz question i answer doesn't match any option"

MsgTestAnswer == "Test MCQ answer not found in options"

MsgKeyError == "KeyError"

Exc(m, f, i, a) == [msg |-> m, field |-> f, index |-> i, answer |-> a]

NoError == Exc("", "", 0, <<>>)

\* ------------------------------------------------------------------
\* call_deepseek: the pure parts
\* ------------------------------------------------------------------

Fence == "FENCE"

\* text.replace(fence + "json", "").replace(fence, "").strip()
RemoveFences(s) == Strip(Remove(Remove(s, <<Fence, "json">>), <<Fence>>))

\* required_fields listed in the opposite order
required_fields_reversed == <<"test", "quiz", "flashcards", "teaching_content">>

required_fields == <<"teaching_content", "flashcards", "quiz", "test">>

\* the fields of required_fields that data lacks, as positions in the list
MissingAt(d) == {k \in 1..Len(required_fields) : ~HasKey(d, required_fields[k])}

\* the number of options every question must have
OptionCount == 4

\* question.get(key, default)
Get(d, k, default) == IF HasKey(d, k) THEN d.v[k] ELSE default

\* the option texts of a question, as a list of strings
OptionTexts(options) == [k \in 1..Len(options.v) |-> options.v[k].v]

\* PartialMatches with the test of line 287 dropped: every option matches
PartialMatchesAny(answer_lower, opts) == 1..Len(opts)

\* the options that match the answer partially, in either direction
PartialMatches(answer_lower, opts) ==
    {k \in 1..Len(opts) :
        \/ Contains(Lower(opts[k]), answer_lower)
        \/ Contains(answer_lower, Lower(opts[k]))}

\* one iteration of validate_quiz_answers on question number i: the
\* exception raised, if any, and the question as the iteration leaves it
ValidateQuizQuestion(question, i) ==
    LET answer == Strip(Get(question, "answer", Str(<<>>)).v)
        options == Get(question, "options", Arr(<<>>))
        opts == OptionTexts(options)
        answer_lower == Lower(answer)
        options_lower == {Lower(opts[k]) : k \in 1..Len(opts)}
        partial == PartialMatches(answer_lower, opts)
    IN  IF answer = <<>>
        THEN [raised |-> TRUE, exc |-> Exc(MsgNoAnswer, "", i, <<>>),
              question |-> question]
        ELSE IF Len(opts) = 0 \/ Len(opts) # OptionCount
        THEN [raised |-> TRUE, exc |-> Exc(MsgOptionCount, "", i, <<>>),
              question |-> question]
        ELSE IF answer_lower \in options_lower
        THEN [raised |-> FALSE, exc |-> NoError, question |-> question]
        ELSE IF partial = {}
        THEN [raised |-> TRUE, exc |-> Exc(MsgNoMatch, "", i, answer),
              question |-> question]
        ELSE [raised |-> FALSE, exc |-> NoError,
              question |-> Obj([k \in DOMAIN question.v \cup {"answer"} |->
                                  IF k = "answer"
                                  THEN options.v[SetMin(partial)]
                                  ELSE question.v[k]])]

\* one iteration of the test loop of call_deepseek: the exception raised
ValidateTestQuestion(mcq) ==
    IF ~HasKey(mcq, "answer") \/ ~HasKey(mcq, "options")
    THEN [raised |-> TRUE, exc |-> Exc(MsgKeyError, "", 0, <<>>)]
    ELSE IF mcq.v["answer"] \notin {mcq.v["options"].v[k] :
                                      k \in 1..Len(mcq.v["options"].v)}
    THEN [raised |-> TRUE,
          exc |-> Exc(MsgTestAnswer, "", 0, mcq.v["answer"].v)]
    ELSE [raised |-> FALSE, exc |-> NoError]

\* ------------------------------------------------------------------
\* generate_study_suggestions
\* ------------------------------------------------------------------

Suggestion(t, d) == Obj([topic |-> Str(t), description |-> Str(d)])

\* the list of the except branch
DefaultSuggestions(topic) ==
    << Suggestion(<<"Advanced ">> \o topic,
                  <<"Explore more advanced aspects of this topic">>),
       Suggestion(topic \o <<" in Practice">>,
                  <<"Learn practical applications and real-world uses">>),
       Suggestion(<<"Related Concepts to ">> \o topic,
                  <<"Discover important related topics and principles">>) >>

\* the fallbacks list
Fallbacks(topic) ==
    << Suggestion(<<"Advanced ">> \o topic,
                  <<"Deeper exploration of advanced concepts">>),
       Suggestion(topic \o <<" Applications">>,
                  <<"Real-world applications and use cases">>),
       Suggestion(<<"Related ">> \o topic \o <<" Concepts">>,
                  <<"Important related concepts and principles">>) >>

\* the least and the greatest number of suggestions returned
MinSuggestions == 3

MaxSuggestions == 4

\* PadAndCap with the fallbacks not sliced: all three are appended
PadAndCapUnsliced(suggestions, topic) ==
    LET padded == IF Len(suggestions) < MinSuggestions
                  THEN suggestions \o Fallbacks(topic)
                  ELSE suggestions
    IN  Slice(padded, 0, MaxSuggestions)

\* the lines after json.loads: pad to three, cut to four
PadAndCap(suggestions, topic) ==
    LET padded == IF Len(suggestions) < MinSuggestions
                  THEN Slice(suggestions, 0, MinSuggestions)
                       \o Slice(Fallbacks(topic), Len(suggestions),
                                MinSuggestions)
                  ELSE suggestions
    IN  Slice(padded, 0, MaxSuggestions)

\* generate_study_suggestions whose except branch returns an empty list
generate_study_suggestions_no_default(topic, outcome) ==
    LET cleaned == RemoveFences(Strip(outcome.text))
        first == Find(cleaned, <<"[">>)
        last == RFind(cleaned, <<"]">>) + 1
        loaded == JsonLoads(Strip(Slice(cleaned, first, last)))
    IN  IF outcome.raises \/ first = -1 \/ last <= 0 \/ ~loaded.ok THEN <<>>
        ELSE PadAndCap(loaded.val.v, topic)

\* the whole function, given what the Gemini call did: it raised, or it
\* returned response.text
generate_study_suggestions(topic, outcome) ==
    LET cleaned == RemoveFences(Strip(outcome.text))
        first == Find(cleaned, <<"[">>)
        last == RFind(cleaned, <<"]">>) + 1
        loaded == JsonLoads(Strip(Slice(cleaned, first, last)))
    IN  IF outcome.raises THEN DefaultSuggestions(topic)
        ELSE IF first = -1 \/ last <= 0 THEN DefaultSuggestions(topic)
        ELSE IF ~loaded.ok THEN DefaultSuggestions(topic)
        ELSE PadAndCap(loaded.val.v, topic)

\* ------------------------------------------------------------------
\* What the backends may answer: the texts the checks run on
\* ------------------------------------------------------------------

\* the sequences over S of length at most n
SeqsUpTo(S, n) == UNION {[1..k -> S] : k \in 0..n}

\* json.dumps of a value, keys in the order of the prompt's template
KeyOrder ==
    <<"teaching_content", "title", "flashcards", "quiz", "question",
      "options", "answer", "test", "mcq_questions", "qa_questions", "topic",
      "description">>

RECURSIVE Dumps(_)
RECURSIVE DumpsElems(_, _)
RECURSIVE DumpsMembers(_, _)

Dumps(x) ==
    CASE x.t = "str" -> <<"\"">> \o x.v \o <<"\"">>
      [] x.t = "arr" -> <<"[">> \o DumpsElems(x.v, 1) \o <<"]">>
      [] x.t = "obj" -> <<"{">> \o DumpsMembers(x.v, 1) \o <<"}">>

DumpsElems(xs, k) ==
    IF k > Len(xs) THEN <<>> ELSE Dumps(xs[k]) \o DumpsElems(xs, k + 1)

DumpsMembers(f, k) ==
    IF k > Len(KeyOrder) THEN <<>>
    ELSE IF KeyOrder[k] \in DOMAIN f
    THEN <<KeyOrder[k]>> \o Dumps(f[KeyOrder[k]]) \o DumpsMembers(f, k + 1)
    ELSE DumpsMembers(f, k + 1)

\* the counts the prompt asks for
FlashcardCount == 5

QuizCount == 5

McqCount == 5

QaCount == 3

\* bounds of the model
MaxAnsLen == 2

MaxTitleLen == 2

MaxGarbage == 3

MaxCount == 6

MaxParsed == 5

AnswerAlphabet == {"a", "A", "b", " "}

Answers == SeqsUpTo(AnswerAlphabet, MaxAnsLen)

\* option lists: four options; three; four with padded options; five; none
OptionLists ==
    { << <<"A">>, <<"b", "a">>, <<"c">>, <<"d">> >>,
      << <<"A">>, <<"b", "a">>, <<"c">> >>,
      << <<"b", "a">>, <<" ", "a">>, <<"c">>, <<"d">> >>,
      << <<"A">>, <<"b", "a">>, <<"c">>, <<"d">>, <<"b">> >>,
      << >> }

\* a quiz question or test MCQ
Question(opts, ans) ==
    Obj([question |-> Str(<<"a">>),
         options |-> Arr([k \in 1..Len(opts) |-> Str(opts[k])]),
         answer |-> Str(ans)])

Questions == {Question(o, a) : o \in OptionLists, a \in Answers}

\* an exact answer, an answer differing in case, an unmatched answer
GoodQuestion == Question(<< <<"A">>, <<"b", "a">>, <<"c">>, <<"d">> >>, <<"A">>)

Companions ==
    { GoodQuestion,
      Question(<< <<"A">>, <<"b", "a">>, <<"c">>, <<"d">> >>, <<"a">>),
      Question(<< <<"A">>, <<"b", "a">>, <<"c">>, <<"d">> >>, <<"b", "b">>) }

Repeat(x, n) == [k \in 1..n |-> x]

Flashcard == Obj([title |-> Str(<<"a">>)])

QaPair == Obj([question |-> Str(<<"a">>), answer |-> Str(<<"a">>)])

\* a document with the given top-level keys
Document(keys, title, nFlash, quiz, mcq, nQa) ==
    LET full ==
          [teaching_content |-> Obj([title |-> Str(title)]),
           flashcards |-> Arr(Repeat(Flashcard, nFlash)),
           quiz |-> Arr(quiz),
           test |-> Obj([mcq_questions |-> Arr(mcq),
                         qa_questions |-> Arr(Repeat(QaPair, nQa))])]
    IN  Obj([k \in keys |-> full[k]])

AllKeys == {"teaching_content", "flashcards", "quiz", "test"}

\* documents that vary the questions
QuestionDocuments ==
    {Document(AllKeys, <<"a">>, 1, q, m, 1) :
        <<q, m>> \in
            {<< <<x>>, <<>> >> : x \in Questions}
            \cup {<< <<>>, <<x>> >> : x \in Questions}
            \cup {<< <<x>>, <<x>> >> : x \in Questions}
            \cup {<< <<x, y>>, <<>> >> : x \in Questions, y \in Companions}
            \cup {<< <<y, x>>, <<>> >> : x \in Questions, y \in Companions}
            \cup {<< <<x>>, <<y>> >> : x \in Questions, y \in Companions}
            \cup {<< <<y>>, <<x>> >> : x \in Questions, y \in Companions}}

\* documents that vary one count around what the prompt asks for
CountDocuments ==
    {Document(AllKeys, <<"a">>, c[1], Repeat(GoodQuestion, c[2]),
              Repeat(GoodQuestion, c[3]), c[4]) :
        c \in {<<n, QuizCount, McqCount, QaCount>> : n \in 0..MaxCount}
              \cup {<<FlashcardCount, n, McqCount, QaCount>> : n \in 0..MaxCount}
              \cup {<<FlashcardCount, QuizCount, n, QaCount>> : n \in 0..MaxCount}
              \cup {<<FlashcardCount, QuizCount, McqCount, n>> : n \in 0..MaxCount}}

\* documents that lack top-level keys, or the test's mcq_questions
KeyDocuments ==
    {Document(ks, <<"a">>, 1, <<x>>, <<y>>, 1) :
        ks \in SUBSET AllKeys, x \in Companions, y \in Companions}
    \cup {Obj([teaching_content |-> Obj([title |-> Str(<<"a">>)]),
               flashcards |-> Arr(<<>>), quiz |-> Arr(<<>>),
               test |-> Obj(<<>>)])}

\* documents that vary the lesson's text
TitleDocuments ==
    {Document(AllKeys, t, 1, <<GoodQuestion>>, <<GoodQuestion>>, 1) :
        t \in SeqsUpTo({"a", Fence, "json"}, MaxTitleLen)}

\* a document in fences, in prose, padded
Wrappings ==
    { << <<>>, <<>> >>,
      << <<Fence, "json">>, <<Fence>> >>,
      << <<Fence>>, <<Fence>> >>,
      << <<"x", " ">>, <<" ", "x">> >>,
      << <<" ">>, <<" ">> >>,
      << <<"x", "{">>, <<>> >>,
      << <<>>, <<"}", "x">> >> }

WrappedDocuments ==
    {w[1] \o Dumps(d) \o w[2] :
        w \in Wrappings,
        d \in {Document(AllKeys, <<"a">>, 1, <<x>>, <<x>>, 1) : x \in Companions}}

\* text that is no document
Garbage == SeqsUpTo({"{", "}", "x", " "}, MaxGarbage)

\* the content of the DeepSeek reply
DeepseekTexts ==
    {Dumps(d) : d \in QuestionDocuments \cup CountDocuments
                      \cup KeyDocuments \cup TitleDocuments}
    \cup WrappedDocuments
    \cup Garbage
    \cup {<<Fence, "json">> \o g \o <<Fence>> : g \in Garbage}

\* the n-th suggestion a Gemini reply holds
ParsedSuggestion(n) == Suggestion(Repeat("a", n), <<"a">>)

SuggestionArray(n) == Dumps(Arr([k \in 1..n |-> ParsedSuggestion(k)]))

\* what the Gemini call does: raise (network, timeout) or return text
GeminiOutcomes ==
    {[raises |-> TRUE, text |-> <<>>]}
    \cup {[raises |-> FALSE, text |-> w[1] \o SuggestionArray(n) \o w[2]] :
            n \in 0..MaxParsed,
            w \in {<< <<>>, <<>> >>, << <<Fence, "json">>, <<" ", Fence>> >>}}
    \cup {[raises |-> FALSE, text |-> g] :
            g \in {<<>>, <<"x">>, <<"]", "[">>, <<"[">>, <<"]">>,
                   <<"[", "x", "]">>, <<"[", "\"", "]">>}}

Topics == {<<>>, <<" ">>, <<"Photosynthesis">>, <<" ", "Photosynthesis", " ">>}

\* ------------------------------------------------------------------
\* The server: one request at a time through api_generate
\* ------------------------------------------------------------------

VARIABLES
    GEMINI_API_KEY,   \* whether the Gemini key is configured
    pc,               \* where the request is
    topic,            \* the trimmed topic of the request
    raw,              \* the content of the DeepSeek reply, as received
    text,             \* call_deepseek's text
    start,            \* call_deepseek's start
    end,              \* call_deepseek's end
    json_text,        \* call_deepseek's json_text
    data,             \* call_deepseek's data (mutated by the validation)
    i,                \* the question the validation loops are at
    exc,              \* the exception in flight
    gemini,           \* what the Gemini call did
    response          \* the HTTP response

vars ==
    <<GEMINI_API_KEY, pc, topic, raw, text, start, end, json_text, data, i,
      exc, gemini, response>>

NoOutcome == [raises |-> FALSE, text |-> <<>>]

NoResponse == [status |-> 0, body |-> None, error |-> <<>>]

Init ==
    /\ GEMINI_API_KEY \in BOOLEAN
    /\ pc = "idle"
    /\ topic = <<>>
    /\ raw = <<>>
    /\ text = <<>>
    /\ start = 0
    /\ end = 0
    /\ json_text = <<>>
    /\ data = None
    /\ i = 0
    /\ exc = NoError
    /\ gemini = NoOutcome
    /\ response = NoResponse

\* what a new request starts from: nothing is kept between requests
Fresh ==
    /\ raw' = <<>>
    /\ text' = <<>>
    /\ start' = 0
    /\ end' = 0
    /\ json_text' = <<>>
    /\ data' = None
    /\ i' = 0
    /\ exc' = NoError
    /\ gemini' = NoOutcome

\* raise e
Raise(e) == pc' = "raised" /\ exc' = e

\* an OPTIONS request: an empty 200
Options ==
    /\ pc \in {"idle", "done"}
    /\ Fresh
    /\ topic' = <<>>
    /\ pc' = "done"
    /\ response' = [status |-> 200, body |-> None, error |-> <<>>]
    /\ UNCHANGED GEMINI_API_KEY

\* a POST: the topic is trimmed; none gives a 400
Post ==
    /\ pc \in {"idle", "done"}
    /\ Fresh
    /\ \E t \in Topics :
        /\ topic' = Strip(t)
        /\ IF Strip(t) = <<>>
           THEN /\ pc' = "done"
                /\ response' = [status |-> 400, body |-> None,
                                error |-> <<MsgTopicRequired>>]
           ELSE /\ pc' = "call_deepseek"
                /\ response' = NoResponse
    /\ UNCHANGED GEMINI_API_KEY

\* requests.post returns: a status other than 200 raises, else the content
\* of the reply is trimmed
DeepseekReplies ==
    /\ pc = "call_deepseek"
    /\ \/ /\ Raise(Exc(MsgApiError, "", 0, <<>>))
          /\ UNCHANGED <<raw, text>>
       \/ \E t \in DeepseekTexts :
            /\ raw' = t
            /\ text' = Strip(t)
            /\ pc' = "fences"
            /\ UNCHANGED exc
    /\ UNCHANGED <<GEMINI_API_KEY, topic, start, end, json_text, data, i,
                   gemini, response>>

\* "Remove accidental code fences"
StripFences ==
    /\ pc = "fences"
    /\ text' = RemoveFences(text)
    /\ pc' = "extract"
    /\ UNCHANGED <<GEMINI_API_KEY, topic, raw, start, end, json_text, data,
                   i, exc, gemini, response>>

\* "Extract JSON block"
ExtractJson ==
    /\ pc = "extract"
    /\ start' = Find(text, <<"{">>)
    /\ end' = RFind(text, <<"}">>) + 1
    /\ IF start' = -1 \/ end' <= 0
       THEN /\ Raise(Exc(MsgNoJson, "", 0, <<>>))
            /\ UNCHANGED json_text
       ELSE /\ json_text' = Strip(Slice(text, start', end'))
            /\ pc' = "parse"
            /\ UNCHANGED exc
    /\ UNCHANGED <<GEMINI_API_KEY, topic, raw, text, data, i, gemini,
                   response>>

\* "Parse JSON"
ParseJson ==
    /\ pc = "parse"
    /\ IF JsonLoads(json_text).ok
       THEN /\ data' = JsonLoads(json_text).val
            /\ pc' = "fields"
            /\ UNCHANGED exc
       ELSE /\ Raise(Exc(MsgInvalidJson, "", 0, <<>>))
            /\ UNCHANGED data
    /\ UNCHANGED <<GEMINI_API_KEY, topic, raw, text, start, end, json_text,
                   i, gemini, response>>

\* "Validate presence of sections": the first missing field raises
CheckRequiredFields ==
    /\ pc = "fields"
    /\ IF MissingAt(data) # {}
       THEN Raise(Exc(MsgMissingField,
                      required_fields[SetMin(MissingAt(data))], 0, <<>>))
       ELSE pc' = "quiz" /\ UNCHANGED exc
    /\ i' = 1
    /\ UNCHANGED <<GEMINI_API_KEY, topic, raw, text, start, end, json_text,
                   data, gemini, response>>

\* validate_quiz_answers(data["quiz"]): one question per step
ValidateQuiz ==
    /\ pc = "quiz"
    /\ IF i > Len(data.v["quiz"].v)
       THEN /\ pc' = "test"
            /\ i' = 1
            /\ UNCHANGED <<data, exc>>
       ELSE LET r == ValidateQuizQuestion(data.v["quiz"].v[i], i)
            IN  IF r.raised
                THEN Raise(r.exc) /\ UNCHANGED <<data, i>>
                ELSE /\ data' = [data EXCEPT
                                   !.v["quiz"].v[i] = r.question]
                     /\ i' = i + 1
                     /\ UNCHANGED <<pc, exc>>
    /\ UNCHANGED <<GEMINI_API_KEY, topic, raw, text, start, end, json_text,
                   gemini, response>>

\* the loop over data["test"]["mcq_questions"]: one question per step
ValidateTest ==
    /\ pc = "test"
    /\ IF ~HasKey(data.v["test"], "mcq_questions")
       THEN Raise(Exc(MsgKeyError, "mcq_questions", 0, <<>>)) /\ UNCHANGED i
       ELSE IF i > Len(data.v["test"].v["mcq_questions"].v)
       THEN pc' = "returned" /\ UNCHANGED <<i, exc>>
       ELSE LET r == ValidateTestQuestion(data.v["test"].v["mcq_questions"].v[i])
            IN  IF r.raised
                THEN Raise(r.exc) /\ UNCHANGED i
                ELSE i' = i + 1 /\ UNCHANGED <<pc, exc>>
    /\ UNCHANGED <<GEMINI_API_KEY, topic, raw, text, start, end, json_text,
                   data, gemini, response>>

\* call_deepseek returned and Gemini is configured: the suggestions are
\* added to the result, which is the response.  generate_study_suggestions
\* catches every exception itself, so api_generate's own except branch
\* around it is never taken.
AddStudySuggestions ==
    /\ pc = "returned"
    /\ GEMINI_API_KEY
    /\ \E o \in GeminiOutcomes :
        /\ gemini' = o
        /\ response' =
            [status |-> 200,
             body |-> Obj([k \in DOMAIN data.v \cup {"study_suggestions"} |->
                             IF k = "study_suggestions"
                             THEN Arr(generate_study_suggestions(topic, o))
                             ELSE data.v[k]]),
             error |-> <<>>]
    /\ pc' = "done"
    /\ UNCHANGED <<GEMINI_API_KEY, topic, raw, text, start, end, json_text,
                   data, i, exc>>

\* call_deepseek returned and Gemini is not configured
RespondWithoutSuggestions ==
    /\ pc = "returned"
    /\ ~GEMINI_API_KEY
    /\ response' = [status |-> 200, body |-> data, error |-> <<>>]
    /\ pc' = "done"
    /\ UNCHANGED <<GEMINI_API_KEY, topic, raw, text, start, end, json_text,
                   data, i, exc, gemini>>

\* api_generate's except: the message of the exception, with a 500
RespondError ==
    /\ pc = "raised"
    /\ response' = [status |-> 500, body |-> None,
                    error |-> <<exc.msg, exc.field>>]
    /\ pc' = "done"
    /\ UNCHANGED <<GEMINI_API_KEY, topic, raw, text, start, end, json_text,
                   data, i, exc, gemini>>

Next ==
    \/ Options
    \/ Post
    \/ DeepseekReplies
    \/ StripFences
    \/ ExtractJson
    \/ ParseJson
    \/ CheckRequiredFields
    \/ ValidateQuiz
    \/ ValidateTest
    \/ AddStudySuggestions
    \/ RespondWithoutSuggestions
    \/ RespondError

Spec == Init /\ [][Next]_vars

\* ------------------------------------------------------------------
\* Vocabulary of the properties
\* ------------------------------------------------------------------

\* the document json.loads produced, before any repair
Parsed == JsonLoads(json_text).val

\* json.loads has produced a document in this request
HasDocument == data # None

QuizOf(d) == IF HasKey(d, "quiz") THEN d.v["quiz"].v ELSE <<>>

McqOf(d) ==
    IF HasKey(d, "test") /\ HasKey(d.v["test"], "mcq_questions")
    THEN d.v["test"].v["mcq_questions"].v
    ELSE <<>>

QaOf(d) == d.v["test"].v["qa_questions"].v

AnswerOf(q) == q.v["answer"].v

OptionsOf(q) == {q.v["options"].v[k].v : k \in 1..Len(q.v["options"].v)}

ExactAnswer(q) == AnswerOf(q) \in OptionsOf(q)

FourOptions(q) == Len(q.v["options"].v) = 4

\* no option equals, contains or is contained in the answer, lower-cased
Unmatched(ans, q) ==
    \A o \in OptionsOf(q) :
        /\ Lower(ans) # Lower(o)
        /\ ~Contains(Lower(o), Lower(ans))
        /\ ~Contains(Lower(ans), Lower(o))

\* validate_quiz_answers raised at question k
QuizRaisedAt(k) ==
    /\ exc.msg \in {MsgNoAnswer, MsgOptionCount, MsgNoMatch}
    /\ exc.index = k

\* validate_quiz_answers has accepted question k
QuizAccepted(k) ==
    \/ pc = "quiz" /\ k < i
    \/ pc \in {"test", "returned"}
    \/ exc.msg \in {MsgTestAnswer, MsgKeyError}
    \/ pc = "done" /\ exc = NoError

\* call_deepseek returned in this request
PrimarySucceeded == HasDocument /\ exc = NoError /\ pc \in {"returned", "done"}

\* the response is an error and carries no document
ErrorResponse == response.status = 500 /\ response.body = None

\* ------------------------------------------------------------------
\* Properties
\* ------------------------------------------------------------------

\* C1: when call_deepseek returns a document, the answer of every quiz
\* question and of every test MCQ is exactly one of its options.
C1_AnswersAreOptions ==
    pc = "returned" =>
        /\ \A k \in 1..Len(QuizOf(data)) : ExactAnswer(QuizOf(data)[k])
        /\ \A k \in 1..Len(McqOf(data)) : ExactAnswer(McqOf(data)[k])

\* the answer differs from some option in case only
CaseOnly(q) ==
    /\ FourOptions(q)
    /\ ~ExactAnswer(q)
    /\ \E o \in OptionsOf(q) : Lower(o) = Lower(AnswerOf(q))

\* C2: a question with 4 options whose answer equals no option exactly but
\* equals one when both are lower-cased is accepted, and its stored answer
\* becomes that option's text.
C2_CaseRepair ==
    (HasDocument /\ pc \in {"quiz", "test", "returned", "raised"}) =>
        LET quiz == QuizOf(Parsed)
        IN  \A k \in 1..Len(quiz) :
                CaseOnly(quiz[k]) =>
                    /\ ~QuizRaisedAt(k)
                    /\ QuizAccepted(k) =>
                        /\ ExactAnswer(QuizOf(data)[k])
                        /\ Lower(AnswerOf(QuizOf(data)[k]))
                             = Lower(AnswerOf(quiz[k]))

\* C3: a test MCQ is accepted, repaired or rejected exactly as the same
\* question in the quiz: it is not rejected when the quiz accepted the same
\* question, it would not be accepted when the quiz rejected it, and both
\* end with the same answer.
C3_SamePolicy ==
    (HasDocument /\ pc \in {"returned", "raised"}) =>
        LET quiz == QuizOf(Parsed)
            mcqs == McqOf(Parsed)
        IN  \A k \in 1..Len(quiz) : \A m \in 1..Len(mcqs) :
                quiz[k] = mcqs[m] =>
                    /\ ~(pc = "raised" /\ exc.msg = MsgTestAnswer /\ i = m)
                    /\ (pc = "raised" /\ QuizRaisedAt(k))
                         => ValidateTestQuestion(mcqs[m]).raised
                    /\ pc = "returned"
                         => AnswerOf(QuizOf(data)[k]) = AnswerOf(McqOf(data)[m])

\* some quiz question or test MCQ of d has an answer that, lower-cased,
\* matches no option
SomeUnmatched(d) ==
    \/ \E k \in 1..Len(QuizOf(d)) :
          Unmatched(AnswerOf(QuizOf(d)[k]), QuizOf(d)[k])
    \/ \E m \in 1..Len(McqOf(d)) :
          Unmatched(AnswerOf(McqOf(d)[m]), McqOf(d)[m])

\* the same with the quiz answers trimmed first, as validate_quiz_answers
\* trims them
SomeUnmatchedTrimmed(d) ==
    \/ \E k \in 1..Len(QuizOf(d)) :
          Unmatched(Strip(AnswerOf(QuizOf(d)[k])), QuizOf(d)[k])
    \/ \E m \in 1..Len(McqOf(d)) :
          Unmatched(AnswerOf(McqOf(d)[m]), McqOf(d)[m])

\* no required key is missing and every quiz question passes the checks that
\* precede the matching: 4 options and an answer
WellFormed(d) ==
    /\ MissingAt(d) = {}
    /\ \A k \in 1..Len(QuizOf(d)) :
          /\ FourOptions(QuizOf(d)[k])
          /\ Strip(AnswerOf(QuizOf(d)[k])) # <<>>

\* C4 as stated, for documents that no earlier check rejects: an answer that,
\* lower-cased, matches no option makes the pipeline raise an
\* answer-consistency error, and the response is an error without a document.
C4_UnmatchedFails ==
    (pc = "done" /\ HasDocument) =>
        LET d == Parsed
        IN  (WellFormed(d) /\ SomeUnmatched(d)) =>
                /\ ErrorResponse
                /\ exc.msg \in {MsgNoMatch, MsgTestAnswer}

\* C4 (amended): a quiz answer that, trimmed and lower-cased, matches no
\* option, or a test MCQ answer that, lower-cased, matches no option, makes
\* the request end in an error response without a document, and call_deepseek
\* never returns; the error is an answer-consistency error when no earlier
\* check rejects the document.
C4_UnmatchedFailsTrimmed ==
    (pc \in {"returned", "done"} /\ HasDocument) =>
        LET d == Parsed
        IN  SomeUnmatchedTrimmed(d) =>
                /\ pc # "returned"
                /\ ErrorResponse
                /\ WellFormed(d) => exc.msg \in {MsgNoMatch, MsgTestAnswer}

\* the second quiz question matches no option and the request has failed
\* with the answer-consistency error naming it
C4_Witness ==
    /\ pc = "done"
    /\ HasDocument
    /\ Len(QuizOf(Parsed)) = 2
    /\ Unmatched(Strip(AnswerOf(QuizOf(Parsed)[2])), QuizOf(Parsed)[2])
    /\ exc.msg = MsgNoMatch
    /\ exc.index = 2
    /\ ErrorResponse

\* C5: a document call_deepseek returns has 5 flashcards, 5 quiz questions,
\* 5 test MCQs, 3 Q&A pairs and 4 options in every question: any other
\* count is rejected.
C5_Cardinalities ==
    pc = "returned" =>
        /\ Len(data.v["flashcards"].v) = FlashcardCount
        /\ Len(QuizOf(data)) = QuizCount
        /\ Len(McqOf(data)) = McqCount
        /\ Len(QaOf(data)) = QaCount
        /\ \A k \in 1..Len(QuizOf(data)) : FourOptions(QuizOf(data)[k])
        /\ \A k \in 1..Len(McqOf(data)) : FourOptions(McqOf(data)[k])

\* the extractor has run on text
Extracted ==
    \/ pc \in {"parse", "fields", "quiz", "test", "returned"}
    \/ pc = "raised" /\ exc.msg # MsgApiError

\* C6: a text with no "{", or whose last "}" is not after its first "{",
\* fails at extraction, not at the parse.
C6_ExtractionError ==
    (/\ Extracted
     /\ \/ Find(text, <<"{">>) = -1
        \/ RFind(text, <<"}">>) <= Find(text, <<"{">>))
    => (pc = "raised" /\ exc.msg = MsgNoJson)

\* what the enrichment parsed: not ok when the call raised, when no array
\* was found, when the array did not parse
GeminiParsed ==
    LET cleaned == RemoveFences(Strip(gemini.text))
        first == Find(cleaned, <<"[">>)
        last == RFind(cleaned, <<"]">>)
    IN  IF gemini.raises \/ first = -1 \/ last = -1 THEN ParseFail
        ELSE JsonLoads(Strip(Slice(cleaned, first, last + 1)))

\* the request has ended with the enrichment run after a successful
\* call_deepseek
Enriched == pc = "done" /\ PrimarySucceeded /\ GEMINI_API_KEY

SuggestionsOf(r) == r.body.v["study_suggestions"].v

\* C7: with call_deepseek successful and Gemini configured, a failed
\* enrichment still gives a 200 whose teaching_content, flashcards, quiz and
\* test are those call_deepseek produced, with the 3 default suggestions.
C7_EnrichmentAbsorbed ==
    (Enriched /\ ~GeminiParsed.ok) =>
        /\ response.status = 200
        /\ response.body.t = "obj"
        /\ \A k \in AllKeys : response.body.v[k] = data.v[k]
        /\ HasKey(response.body, "study_suggestions")
        /\ Len(SuggestionsOf(response)) = 3
        /\ SuggestionsOf(response) = DefaultSuggestions(topic)

\* the Gemini call raised (a timeout), after a quiz answer was repaired, and
\* the response is the document
C7_Witness ==
    /\ Enriched
    /\ gemini.raises
    /\ data # Parsed
    /\ response.status = 200
    /\ response.body.v["quiz"] = data.v["quiz"]

\* x is a suggestion whose topic holds the request's topic
ReferencesTopic(x) == HasKey(x, "topic") /\ Contains(x.v["topic"].v, topic)

\* C8: the suggestions returned are 3 or 4; with n parsed: n = 0 gives 3
\* items made from the topic, n = 1 or 2 gives the parsed items followed by
\* 3 - n filler items made from the topic, n = 3 or 4 gives the parsed
\* items, n > 4 gives the first 4 parsed items.
C8_SuggestionCount ==
    Enriched =>
        LET got == SuggestionsOf(response)
            parsed == GeminiParsed.val.v
            n == Len(parsed)
        IN  /\ Len(got) >= 3
            /\ Len(got) <= 4
            /\ GeminiParsed.ok =>
                /\ n = 0 =>
                    /\ Len(got) = 3
                    /\ \A j \in 1..3 : ReferencesTopic(got[j])
                /\ n \in {1, 2} =>
                    /\ Len(got) = 3
                    /\ \A j \in 1..n : got[j] = parsed[j]
                    /\ \A j \in (n + 1)..3 : ReferencesTopic(got[j])
                /\ n \in {3, 4} => got = parsed
                /\ n > 4 => got = SubSeq(parsed, 1, 4)

\* two suggestions were parsed and one filler was added; and elsewhere more
\* than four were parsed
C8_Witness ==
    /\ Enriched
    /\ GeminiParsed.ok
    /\ Len(GeminiParsed.val.v) = 2
    /\ Len(SuggestionsOf(response)) = 3
    /\ ReferencesTopic(SuggestionsOf(response)[3])
    /\ ~ReferencesTopic(SuggestionsOf(response)[2])

\* the text is one well-formed JSON object with the four required fields
\* whose every answer is exactly one of its 4 options
SelfConsistent(o) ==
    /\ o.ok
    /\ MissingAt(o.val) = {}
    /\ HasKey(o.val.v["test"], "mcq_questions")
    /\ \A k \in 1..Len(QuizOf(o.val)) :
          FourOptions(QuizOf(o.val)[k]) /\ ExactAnswer(QuizOf(o.val)[k])
    /\ \A k \in 1..Len(McqOf(o.val)) :
          FourOptions(McqOf(o.val)[k]) /\ ExactAnswer(McqOf(o.val)[k])

\* C9: for a text that is one well-formed, self-consistent JSON object,
\* call_deepseek returns a document equal to that object.
C9_Passthrough ==
    (pc \in {"returned", "raised"} /\ exc.msg # MsgApiError) =>
        (SelfConsistent(JsonLoads(raw)) =>
            /\ pc = "returned"
            /\ data = JsonLoads(raw).val)

\* the first required key the document lacks, in the order
\* teaching_content, flashcards, quiz, test
FirstMissing(d) ==
    IF ~HasKey(d, "teaching_content") THEN "teaching_content"
    ELSE IF ~HasKey(d, "flashcards") THEN "flashcards"
    ELSE IF ~HasKey(d, "quiz") THEN "quiz"
    ELSE IF ~HasKey(d, "test") THEN "test"
    ELSE ""

\* C10: a parsed document that lacks a required key fails with the
\* missing-field error naming the first key it lacks, before any answer is
\* validated: the validation is never entered and the document is untouched.
C10_MissingField ==
    (HasDocument /\ pc # "fields" /\ FirstMissing(data) # "") =>
        /\ pc \in {"raised", "done"}
        /\ exc.msg = MsgMissingField
        /\ exc.field = FirstMissing(data)
        /\ i = 1
        /\ data = Parsed
        /\ pc = "done" =>
            /\ ErrorResponse
            /\ response.error = <<MsgMissingField, FirstMissing(data)>>

\* a document lacking only test, with a quiz answer that would be rejected,
\* has failed with the error naming test
C10_Witness ==
    /\ pc = "done"
    /\ HasDocument
    /\ \A k \in {"teaching_content", "flashcards", "quiz"} : HasKey(data, k)
    /\ ~HasKey(data, "test")
    /\ \E k \in 1..Len(QuizOf(data)) :
          Unmatched(AnswerOf(QuizOf(data)[k]), QuizOf(data)[k])
    /\ ErrorResponse
    /\ exc.field = "test"

====
